---- MODULE Spec2Model ----
(***************************************************************************)
(* GlContextSystem (src/rendering/renderers/gl/context/GlContextSystem.ts) *)
(* as a state machine: the manager's fields, the renderer and the drawing  *)
(* surface it talks to, and the native contexts with their lost state.    *)
(*                                                                         *)
(* Every method of the class is an operator over a record `s` holding the  *)
(* manager's fields plus `fx`, the record of the calls the method made on  *)
(* its collaborators (surface, runner, context, console) and whether it    *)
(* threw. A throw stops the method where the source would stop: the       *)
(* assignments made before it stay.                                        *)
(***************************************************************************)
EXTENDS Integers, Sequences, FiniteSets

\* ------------------------------------------------------------------ bounds

\* Number of native context handles that exist in the environment.
NumHandles == 2

\* ------------------------------------------------- values of the program

\* `null`: options.context default, getContext's refusal, renderer after destroy.
Null == 0

\* `undefined`: a declared field that no code has assigned yet (this.gl).
Undefined == 0 - 1

Handles == 1 .. NumHandles

\* An optional boolean or string: <<>> is undefined, <<v>> is the value v.
Unset == <<>>

Some(v) == <<v>>

Optional(S) == {Unset} \cup {Some(v) : v \in S}

\* JavaScript truthiness of a context reference.
Truthy(g) == g \in Handles

\* ------------------------------------------- the native contexts (fixed)

\* What each native context is: context 1 is a WebGL 2 context with the
\* lose-context extension that was granted no stencil buffer; context 2 is a
\* WebGL 1 context with neither stencil buffer nor 32-bit indices nor the
\* lose-context extension; any further context is a WebGL 1 context with
\* stencil buffer, 32-bit indices and the lose-context extension.
NativeContext(g) ==
    CASE g = 1 ->
           [ webgl2 |-> TRUE, stencil |-> FALSE,
             supported |-> { "WEBGL_lose_context", "EXT_texture_filter_anisotropic",
                             "WEBGL_compressed_texture_s3tc", "EXT_color_buffer_float",
                             "WEBGL_compressed_texture_pvrtc" } ]
      [] g = 2 ->
           [ webgl2 |-> FALSE, stencil |-> FALSE,
             supported |-> { "OES_texture_float_linear", "WEBGL_compressed_texture_etc1",
                             "WEBKIT_WEBGL_compressed_texture_pvrtc" } ]
      [] OTHER ->
           [ webgl2 |-> FALSE, stencil |-> TRUE,
             supported |-> { "OES_element_index_uint", "WEBGL_lose_context",
                             "WEBGL_compressed_texture_astc" } ]

\* gl instanceof WebGL2RenderingContext
IsWebGL2(g) == NativeContext(g).webgl2

\* The extensions a context offers while it is not lost.
SupportedExtensions(g) == NativeContext(g).supported

\* The stencil flag of the attributes the context was actually granted.
GrantedStencil(g) == NativeContext(g).stencil

\* The context the surface hands out for 'webgl2', when it hands out one.
SurfaceContext == 1

\* Background opacities the renderer may be configured with when init reads
\* renderer.background.alpha, in percent.
BackgroundAlphas == {50, 100}

Opaque == 100

\* The power preferences the callers of the model ask for.
PowerPreferences == {"default", "high-performance"}

\* The option records init is called with when it has to create a context:
\* a preserved drawing buffer is asked for together with high performance.
CreationOptions ==
    { o \in [ context : {Null},
              powerPreference : PowerPreferences,
              premultipliedAlpha : Optional({FALSE}),
              preserveDrawingBuffer : BOOLEAN,
              antialias : Optional({TRUE}) ] :
        o.preserveDrawingBuffer = (o.powerPreference = "high-performance") }

\* The option records init is called with to adopt an existing context: the
\* defaults of the class, or the opposite of each default.
AdoptionOptions ==
    [ context : Handles,
      powerPreference : {"default"},
      premultipliedAlpha : {Some(TRUE)},
      preserveDrawingBuffer : {FALSE},
      antialias : {Unset} ]
    \cup
    [ context : Handles,
      powerPreference : {"high-performance"},
      premultipliedAlpha : {Some(FALSE)},
      preserveDrawingBuffer : {TRUE},
      antialias : {Some(TRUE)} ]

ContextSystemOptions == CreationOptions \cup AdoptionOptions

\* ----------------------------------------------------------------- state

VARIABLES
    renderer,               \* this.renderer is set (FALSE: null)
    webGLVersion,           \* this.webGLVersion
    supports,               \* this.supports
    gl,                     \* this.gl
    extensions,             \* this.extensions
    preserveDrawingBuffer,  \* this.preserveDrawingBuffer
    powerPreference,        \* this.powerPreference
    rendererGl,             \* renderer.gl
    listeners,              \* the surface's event listener list: type and callback
    canvasContext,          \* what the surface's getContext('webgl2') returns
    contextStatus,          \* per native context: its lost state
    last                    \* what the last operation did (calls made, error raised)

vars == << renderer, webGLVersion, supports, gl, extensions, preserveDrawingBuffer,
           powerPreference, rendererGl, listeners, canvasContext, contextStatus,
           last >>

\* gl.isContextLost(), with `status` the lost state of the contexts at the
\* moment of the call.
IsContextLost(status, g) == status[g] # "ok"

\* An extension object, or NoExtension for getExtension's null.
NoExtension == <<>>

\* gl.getExtension(name): null on a lost context, except for the extension
\* that exists to restore it.
GetExtension(status, g, name) ==
    IF name \in SupportedExtensions(g)
       /\ (~IsContextLost(status, g) \/ name = "WEBGL_lose_context")
    THEN << g, name >>
    ELSE NoExtension

\* No call made, nothing raised. `emitted` lists the payloads of the
\* notifications sent and `listening`, for each of them, the event types the
\* surface had a listener for at that moment; `getContext` lists the requests
\* made to the surface.
NoEffects ==
    [ op |-> "none", arg |-> Null, threw |-> FALSE, emitted |-> <<>>,
      preventDefault |-> 0, getContext |-> <<>>, addEventListener |-> <<>>,
      removeEventListener |-> <<>>, useProgram |-> 0, loseContext |-> <<>>,
      restoreContext |-> <<>>, warnings |-> <<>>, background |-> Unset,
      options |-> Unset, listening |-> <<>> ]

\* The manager's fields as one record, with the effects of the running method
\* and what the method sees of its environment: the background opacity of
\* the renderer and the lost state of the contexts.
Self(op, arg, alpha) ==
    [ backgroundAlpha |-> alpha, contextStatus |-> contextStatus,
      renderer |-> renderer, webGLVersion |-> webGLVersion, supports |-> supports,
      gl |-> gl, extensions |-> extensions,
      preserveDrawingBuffer |-> preserveDrawingBuffer,
      powerPreference |-> powerPreference, rendererGl |-> rendererGl,
      listeners |-> listeners, fx |-> [NoEffects EXCEPT !.op = op, !.arg = arg] ]

\* A TypeError raised by a property access on null or undefined.
Throw(s) == [s EXCEPT !.fx.threw = TRUE]

\* ------------------------------------------------------------ the methods

\* get isLost
isLost == ~Truthy(gl) \/ IsContextLost(contextStatus, gl)

\* contextChange with its two assignments crossed: this.gl takes what
\* renderer.gl was.
contextChange_Crossed(s, g) ==
    LET s1 == [s EXCEPT !.gl = s.rendererGl, !.rendererGl = g]
    IN  IF ~Truthy(g) THEN Throw(s1) ELSE s1

\* contextChange that stores the handle but does not pass it to the renderer.
contextChange_NoRendererUpdate(s, g) ==
    LET s1 == [s EXCEPT !.gl = g]
    IN  IF ~Truthy(g)
        THEN Throw(s1)
        ELSE IF IsContextLost(s.contextStatus, g)
                /\ GetExtension(s.contextStatus, g, "WEBGL_lose_context") # NoExtension
             THEN [s1 EXCEPT !.fx.restoreContext = Append(@, g)]
             ELSE s1

\* contextChange that asks for a restore whenever the extension is offered,
\* without asking the context whether it is lost.
contextChange_AlwaysRestores(s, g) ==
    LET s1 == [s EXCEPT !.gl = g, !.rendererGl = g]
    IN  IF ~Truthy(g)
        THEN Throw(s1)
        ELSE IF GetExtension(s.contextStatus, g, "WEBGL_lose_context") # NoExtension
             THEN [s1 EXCEPT !.fx.restoreContext = Append(@, g)]
             ELSE s1

\* contextChange(gl): the manager's own subscriber of the runner.
contextChange(s, g) ==
    LET s1 == [s EXCEPT !.gl = g, !.rendererGl = g]
    IN  IF ~Truthy(g)
        THEN Throw(s1)   \* gl.isContextLost() on a null gl
        ELSE IF IsContextLost(s.contextStatus, g)
                /\ GetExtension(s.contextStatus, g, "WEBGL_lose_context") # NoExtension
             THEN [s1 EXCEPT !.fx.restoreContext = Append(@, g)]
             ELSE s1

\* this.renderer.runners.contextChange.emit(gl): the notification goes out
\* and the runner calls the manager's contextChange with it.
emit(s, g) ==
    IF ~s.renderer
    THEN Throw(s)
    ELSE contextChange(
             [s EXCEPT !.fx.emitted = Append(@, g),
                       !.fx.listening = Append(@, {l.type : l \in s.listeners})],
             g)

\* validateContext whose index check is chained to the stencil check with an
\* `else`: the index warning is skipped when the stencil warning was given.
validateContext_ElseIf(s, g) ==
    LET hasAttributes == ~IsContextLost(s.contextStatus, g)
        isWebGl2 == IsWebGL2(g)
        s1 == IF isWebGl2 THEN [s EXCEPT !.webGLVersion = 2] ELSE s
        hasUint32 ==
            isWebGl2
            \/ GetExtension(s.contextStatus, g, "OES_element_index_uint") # NoExtension
        s2 == [s1 EXCEPT !.supports = [uint32Indices |-> hasUint32]]
    IN  IF hasAttributes /\ ~GrantedStencil(g)
        THEN [s2 EXCEPT !.fx.warnings = Append(@, "stencil")]
        ELSE IF ~hasUint32
             THEN [s2 EXCEPT !.fx.warnings = Append(@, "uint32Indices")]
             ELSE s2

\* validateContext(gl)
validateContext(s, g) ==
    LET hasAttributes == ~IsContextLost(s.contextStatus, g)   \* null when lost
        isWebGl2 == IsWebGL2(g)
        s1 == IF isWebGl2 THEN [s EXCEPT !.webGLVersion = 2] ELSE s
        s2 == IF hasAttributes /\ ~GrantedStencil(g)
              THEN [s1 EXCEPT !.fx.warnings = Append(@, "stencil")]
              ELSE s1
        hasUint32 ==
            isWebGl2
            \/ GetExtension(s.contextStatus, g, "OES_element_index_uint") # NoExtension
        s3 == [s2 EXCEPT !.supports = [uint32Indices |-> hasUint32]]
    IN  IF ~hasUint32
        THEN [s3 EXCEPT !.fx.warnings = Append(@, "uint32Indices")]
        ELSE s3

\* The function objects the constructor binds once: this.handleContextLost
\* and this.handleContextRestored refer to them for the life of the manager.
ConstructorBound == 0

\* this.handleContextLost / this.handleContextRestored bound anew on every
\* use instead of once in the constructor: each use is a new function object.
handlerRef_BoundOnUse(s, name) == 1 + Cardinality(s.listeners)

\* The function object that `this.<name>` is when the manager passes its
\* handler to the surface.
handlerRef(s, name) == ConstructorBound

\* element.addEventListener(type, callback, false): a listener whose type and
\* callback are already in the list is not added again.
AddEventListener(list, type, callback) ==
    list \cup {[type |-> type, callback |-> callback]}

\* element.removeEventListener(type, callback)
RemoveEventListener(list, type, callback) ==
    list \ {[type |-> type, callback |-> callback]}

\* initFromContext(gl)
initFromContext(s, g) ==
    LET s1 == validateContext([s EXCEPT !.gl = g], g)
        s2 == emit(s1, g)
    IN  IF s2.fx.threw
        THEN s2
        ELSE LET s3 == [s2 EXCEPT
                          !.listeners =
                              AddEventListener(@, "webglcontextlost",
                                               handlerRef(s2, "handleContextLost"))]
             IN  [s3 EXCEPT
                    !.listeners =
                        AddEventListener(@, "webglcontextrestored",
                                         handlerRef(s3, "handleContextRestored")),
                    !.fx.addEventListener =
                        @ \o << "webglcontextlost", "webglcontextrestored" >>]

\* The extensions table getExtensions builds from the held context.
ProbedExtensions(status, g) ==
    [ anisotropicFiltering |-> GetExtension(status, g, "EXT_texture_filter_anisotropic"),
      floatTextureLinear |-> GetExtension(status, g, "OES_texture_float_linear"),
      s3tc |-> GetExtension(status, g, "WEBGL_compressed_texture_s3tc"),
      s3tc_sRGB |-> GetExtension(status, g, "WEBGL_compressed_texture_s3tc_srgb"),
      etc |-> GetExtension(status, g, "WEBGL_compressed_texture_etc"),
      etc1 |-> GetExtension(status, g, "WEBGL_compressed_texture_etc1"),
      pvrtc |->
          IF GetExtension(status, g, "WEBGL_compressed_texture_pvrtc") # NoExtension
          THEN GetExtension(status, g, "WEBGL_compressed_texture_pvrtc")
          ELSE GetExtension(status, g, "WEBKIT_WEBGL_compressed_texture_pvrtc"),
      atc |-> GetExtension(status, g, "WEBGL_compressed_texture_atc"),
      astc |-> GetExtension(status, g, "WEBGL_compressed_texture_astc"),
      colorBufferFloat |-> GetExtension(status, g, "EXT_color_buffer_float") ]

\* Object.assign(target, source)
ObjectAssign(target, source) ==
    [ k \in DOMAIN target \cup DOMAIN source |->
        IF k \in DOMAIN source THEN source[k] ELSE target[k] ]

\* getExtensions(): gl.getExtension on a null gl is a TypeError.
getExtensions(s) ==
    IF ~Truthy(s.gl)
    THEN Throw(s)
    ELSE [s EXCEPT !.extensions = ObjectAssign(@, ProbedExtensions(s.contextStatus, s.gl))]

\* createContext(canvas, options)
createContext(s, attributes) ==
    LET g == canvasContext
    IN  getExtensions([s EXCEPT !.fx.getContext =
                                   Append(@, [kind |-> "webgl2",
                                              attributes |-> attributes]),
                               !.webGLVersion = 2,
                               !.gl = g])

\* initFromOptions(options)
initFromOptions(s, attributes) ==
    IF ~s.renderer
    THEN Throw(s)
    ELSE LET s1 == createContext(s, attributes)
         IN  IF s1.fx.threw THEN s1 ELSE initFromContext(s1, s1.gl)

\* init that takes the creation branch whether or not a context is supplied.
init_ContextIgnored(s, options) ==
    IF ~s.renderer
    THEN Throw(s)
    ELSE initFromOptions(s,
             [ alpha |-> s.backgroundAlpha < Opaque,
               premultipliedAlpha |-> TRUE,
               antialias |-> options.antialias,
               stencil |-> TRUE,
               preserveDrawingBuffer |-> options.preserveDrawingBuffer,
               powerPreference |-> options.powerPreference ])

\* init with `options.premultipliedAlpha || true` in place of `?? true`: an
\* explicit false is replaced by true.
init_PremultipliedOr(s, options) ==
    IF Truthy(options.context)
    THEN initFromContext(s, options.context)
    ELSE IF ~s.renderer
         THEN Throw(s)
         ELSE LET s1 == [s EXCEPT
                           !.fx.background = Some(s.backgroundAlpha),
                           !.preserveDrawingBuffer = Some(options.preserveDrawingBuffer),
                           !.powerPreference = Some(options.powerPreference)]
              IN  initFromOptions(s1,
                      [ alpha |-> s.backgroundAlpha < Opaque,
                        premultipliedAlpha |-> TRUE,
                        antialias |-> options.antialias,
                        stencil |-> TRUE,
                        preserveDrawingBuffer |-> options.preserveDrawingBuffer,
                        powerPreference |-> options.powerPreference ])

\* init that captures preserveDrawingBuffer and powerPreference before it
\* branches on the supplied context.
init_CapturesAlways(s, options) ==
    LET s0 == [s EXCEPT
                 !.preserveDrawingBuffer = Some(options.preserveDrawingBuffer),
                 !.powerPreference = Some(options.powerPreference)]
    IN  IF Truthy(options.context)
        THEN initFromContext(s0, options.context)
        ELSE IF ~s.renderer
             THEN Throw(s)
             ELSE initFromOptions([s0 EXCEPT !.fx.background = Some(s.backgroundAlpha)],
                      [ alpha |-> s.backgroundAlpha < Opaque,
                        premultipliedAlpha |->
                            IF options.premultipliedAlpha = Unset
                            THEN TRUE
                            ELSE options.premultipliedAlpha[1],
                        antialias |-> options.antialias,
                        stencil |-> TRUE,
                        preserveDrawingBuffer |-> options.preserveDrawingBuffer,
                        powerPreference |-> options.powerPreference ])

\* init(options)
init(s, options) ==
    IF Truthy(options.context)
    THEN initFromContext(s, options.context)
    ELSE IF ~s.renderer
         THEN Throw(s)
         ELSE LET alpha == s.backgroundAlpha < Opaque
                  premultipliedAlpha ==
                      IF options.premultipliedAlpha = Unset
                      THEN TRUE
                      ELSE options.premultipliedAlpha[1]
                  s1 == [s EXCEPT
                           !.fx.background = Some(s.backgroundAlpha),
                           !.preserveDrawingBuffer = Some(options.preserveDrawingBuffer),
                           !.powerPreference = Some(options.powerPreference)]
              IN  initFromOptions(s1,
                      [ alpha |-> alpha,
                        premultipliedAlpha |-> premultipliedAlpha,
                        antialias |-> options.antialias,
                        stencil |-> TRUE,
                        preserveDrawingBuffer |-> options.preserveDrawingBuffer,
                        powerPreference |-> options.powerPreference ])

\* handleContextLost without the call of preventDefault.
handleContextLost_NoPreventDefault(s) == s

\* handleContextLost(event)
handleContextLost(s) == [s EXCEPT !.fx.preventDefault = @ + 1]

\* handleContextRestored that only refreshes its own references and leaves
\* the runner alone.
handleContextRestored_NoEmit(s) == contextChange(s, s.gl)

\* handleContextRestored()
handleContextRestored(s) == emit(s, s.gl)

\* destroy()
destroy(s) ==
    IF ~s.renderer
    THEN Throw(s)
    ELSE LET s1 == [s EXCEPT
                      !.renderer = FALSE,
                      !.listeners =
                          RemoveEventListener(
                              RemoveEventListener(@, "webglcontextlost",
                                                  handlerRef(s, "handleContextLost")),
                              "webglcontextrestored",
                              handlerRef(s, "handleContextRestored")),
                      !.fx.removeEventListener =
                          << "webglcontextlost", "webglcontextrestored" >>]
         IN  IF ~Truthy(s1.gl)
             THEN Throw(s1)
             ELSE LET s2 == [s1 EXCEPT !.fx.useProgram = @ + 1]
                  IN  IF "loseContext" \in DOMAIN s2.extensions
                         /\ s2.extensions["loseContext"] # NoExtension
                      THEN [s2 EXCEPT !.fx.loseContext =
                                           Append(@, s2.extensions["loseContext"][1])]
                      ELSE s2

\* ---------------------------------------------------------------- actions

\* The state after `new GlContextSystem(renderer)`, in an environment whose
\* contexts are all alive.
Init ==
    /\ renderer = TRUE
    /\ webGLVersion = 1
    /\ extensions = [k \in {} |-> NoExtension]
    /\ supports = [uint32Indices |-> FALSE]
    /\ gl = Undefined
    /\ preserveDrawingBuffer = Unset
    /\ powerPreference = Unset
    /\ rendererGl = Undefined
    /\ listeners = {}
    /\ canvasContext \in {Null, SurfaceContext}
    /\ contextStatus = [h \in Handles |-> "ok"]
    /\ last = NoEffects

\* WEBGL_lose_context.loseContext() on each context in `forced`: the context
\* becomes lost and its loss signal is queued.
ForceLoss(status, forced) ==
    [ h \in Handles |->
        IF h \in {forced[i] : i \in DOMAIN forced} /\ status[h] = "ok"
        THEN "lostQueued"
        ELSE status[h] ]

\* The fields and the effects record a method left behind become the state.
Becomes(s) ==
    /\ renderer' = s.renderer
    /\ webGLVersion' = s.webGLVersion
    /\ supports' = s.supports
    /\ gl' = s.gl
    /\ extensions' = s.extensions
    /\ preserveDrawingBuffer' = s.preserveDrawingBuffer
    /\ powerPreference' = s.powerPreference
    /\ rendererGl' = s.rendererGl
    /\ listeners' = s.listeners
    /\ last' = s.fx
    /\ UNCHANGED canvasContext

\* A step of the environment alone: no method of the manager runs.
Unobserved ==
    /\ last' = [NoEffects EXCEPT !.op = "environment"]
    /\ UNCHANGED << renderer, webGLVersion, supports, gl, extensions,
                    preserveDrawingBuffer, powerPreference, rendererGl, listeners,
                    canvasContext >>

\* The host calls init(options).
CallInit ==
    \E options \in ContextSystemOptions, alpha \in BackgroundAlphas :
        /\ Becomes(init([Self("init", options.context, alpha)
                             EXCEPT !.fx.options = Some(options)],
                         options))
        /\ UNCHANGED contextStatus

\* The host calls destroy().
CallDestroy ==
    LET s == destroy(Self("destroy", Null, Opaque))
    IN  /\ Becomes(s)
        /\ contextStatus' = ForceLoss(contextStatus, s.fx.loseContext)

\* The device drops a context: from now on it reports itself lost; the
\* surface will signal the loss later.
ContextLoss ==
    \E h \in Handles :
        /\ contextStatus[h] = "ok"
        /\ contextStatus' = [contextStatus EXCEPT ![h] = "lostQueued"]
        /\ Unobserved

\* The listeners the surface holds for an event type.
Registered(type) == {l \in listeners : l.type = type}

\* The surface calls the loss handler once per registered listener.
RECURSIVE DispatchContextLost(_, _)
DispatchContextLost(s, n) ==
    IF n = 0 THEN s ELSE DispatchContextLost(handleContextLost(s), n - 1)

\* The surface calls the restoration handler once per registered listener.
RECURSIVE DispatchContextRestored(_, _)
DispatchContextRestored(s, n) ==
    IF n = 0 THEN s ELSE DispatchContextRestored(handleContextRestored(s), n - 1)

\* The surface delivers 'webglcontextlost' to the manager's handler. The
\* context can be restored later only when the handler prevented the default.
SignalContextLost ==
    \E h \in Handles :
        /\ contextStatus[h] = "lostQueued"
        /\ Registered("webglcontextlost") # {}
        /\ LET s == DispatchContextLost(Self("webglcontextlost", h, Opaque),
                                        Cardinality(Registered("webglcontextlost")))
           IN  /\ Becomes(s)
               /\ contextStatus' =
                    [contextStatus EXCEPT
                        ![h] = IF s.fx.preventDefault > 0
                               THEN "lostPrevented"
                               ELSE "lostForGood"]

\* The surface signals a loss while no handler of the manager is registered:
\* nobody prevents the default, the context stays lost.
UnheardContextLost ==
    \E h \in Handles :
        /\ contextStatus[h] = "lostQueued"
        /\ Registered("webglcontextlost") = {}
        /\ contextStatus' = [contextStatus EXCEPT ![h] = "lostForGood"]
        /\ Unobserved

\* The device restores a context, which stops reporting itself lost, and the
\* surface delivers 'webglcontextrestored' to the manager's handler.
SignalContextRestored ==
    \E h \in Handles :
        /\ contextStatus[h] = "lostPrevented"
        /\ Registered("webglcontextrestored") # {}
        /\ contextStatus' = [contextStatus EXCEPT ![h] = "ok"]
        /\ Becomes(DispatchContextRestored(
                       [Self("webglcontextrestored", h, Opaque)
                           EXCEPT !.contextStatus = contextStatus'],
                       Cardinality(Registered("webglcontextrestored"))))

\* A context is restored while no handler of the manager is registered.
UnheardContextRestored ==
    \E h \in Handles :
        /\ contextStatus[h] = "lostPrevented"
        /\ Registered("webglcontextrestored") = {}
        /\ contextStatus' = [contextStatus EXCEPT ![h] = "ok"]
        /\ Unobserved

Next ==
    \/ CallInit
    \/ CallDestroy
    \/ ContextLoss
    \/ SignalContextLost
    \/ UnheardContextLost
    \/ SignalContextRestored
    \/ UnheardContextRestored

Spec == Init /\ [][Next]_vars

\* ----------------------------------------------------------------- claims

\* The manager's own fields (everything but the surface, the contexts and
\* the record of the last operation).
fields == << renderer, webGLVersion, supports, gl, extensions, preserveDrawingBuffer,
             powerPreference, rendererGl >>

\* C1: a restoration signal delivered to the manager emits exactly one
\* "context changed" notification whose payload is the handle the manager
\* holds, a handle that neither the loss handler nor the restoration handler
\* replaces; when the restored context is the held one, the handler raises
\* nothing and isLost is false afterwards.
C1_RestorationReemitsHeldHandle ==
    [][ /\ last'.op = "webglcontextlost" => gl' = gl
        /\ last'.op = "webglcontextrestored" =>
              /\ last'.emitted = << gl >>
              /\ gl' = gl
              /\ gl = last'.arg => (~last'.threw /\ ~isLost') ]_vars

\* C1 witness: the held context was lost, its loss was signalled, and its
\* restoration signal has just been handled.
C1_Witness ==
    /\ last.op = "webglcontextrestored"
    /\ gl = last.arg
    /\ last.emitted = << gl >>
    /\ ~isLost

\* C2: every loss signal delivered to the manager invokes preventDefault
\* exactly once and emits no notification, and isLost is true when the lost
\* context is the held one.
C2_LossSuppressedWithoutNotification ==
    last.op = "webglcontextlost" =>
        /\ last.preventDefault = 1
        /\ last.emitted = <<>>
        /\ ~last.threw
        /\ gl = last.arg => isLost

\* C2 witness: the loss of the held context has just been signalled.
C2_Witness ==
    /\ last.op = "webglcontextlost"
    /\ gl = last.arg
    /\ last.preventDefault = 1
    /\ isLost

\* C3: a destroy called on an initialized manager that was already destroyed
\* raises no error, detaches nothing, calls nothing on the context and leaves
\* the state as it was.
C3_SecondDestroyIsNoOp ==
    [][ (last'.op = "destroy" /\ ~renderer /\ Truthy(gl) /\ rendererGl = gl) =>
            /\ ~last'.threw
            /\ last'.removeEventListener = <<>>
            /\ last'.useProgram = 0
            /\ last'.loseContext = <<>>
            /\ UNCHANGED << fields, listeners, contextStatus >> ]_vars

\* C4: a destroy called on a manager that holds no native context raises no
\* error and changes neither the manager's fields nor the surface's listeners.
C4_DestroyWithoutContextIsNoOp ==
    [][ (last'.op = "destroy" /\ ~Truthy(gl)) =>
            /\ ~last'.threw
            /\ UNCHANGED << fields, listeners, contextStatus >> ]_vars

\* C5: destroy of an initialized manager calls loseContext exactly once on
\* the held context when that context offers the lose-context extension, and
\* never otherwise.
C5_DestroyForcesContextLoss ==
    (last.op = "destroy" /\ ~last.threw /\ Truthy(gl)) =>
        last.loseContext =
            IF "WEBGL_lose_context" \in SupportedExtensions(gl)
            THEN << gl >>
            ELSE <<>>

\* C6: once destroy has run the manager holds no native context, so isLost
\* is true.
C6_LostAfterDestroy == ~renderer => (~Truthy(gl) /\ isLost)

\* C7: a restoration signal handled before destroy emits its notification,
\* and once an initialized manager is destroyed no step emits a notification
\* or changes the held handle, the recorded version or the capability flags.
C7_TornDownIsTerminal ==
    [][ /\ (last'.op = "webglcontextrestored" /\ renderer) => Len(last'.emitted) = 1
        /\ (~renderer /\ Truthy(gl) /\ rendererGl = gl) =>
              /\ last'.emitted = <<>>
              /\ gl' = gl
              /\ webGLVersion' = webGLVersion
              /\ supports' = supports ]_vars

\* C8: an init that has to create a context on a surface that returns none
\* raises an error, asks the surface exactly once, emits nothing, registers
\* no handler, leaves isLost true and does not advance the version to 2.
C8_FailedCreationLeavesNothingValidated ==
    [][ (last'.op = "init" /\ last'.arg = Null /\ renderer /\ canvasContext = Null) =>
            /\ last'.threw
            /\ Len(last'.getContext) = 1
            /\ last'.emitted = <<>>
            /\ last'.addEventListener = <<>>
            /\ listeners' = listeners
            /\ isLost'
            /\ webGLVersion' = 2 => webGLVersion = 2 ]_vars

\* C9: uint32Indices is true whenever webGLVersion is 2, and with
\* webGLVersion 1 it equals the presence of OES_element_index_uint on the
\* held context.
C9_WideIndicesFollowVersion ==
    /\ webGLVersion = 2 => supports.uint32Indices
    /\ webGLVersion = 1 =>
          supports.uint32Indices =
              (Truthy(gl) /\ "OES_element_index_uint" \in SupportedExtensions(gl))

\* C10: after every init that returns without error the recorded
\* webGLVersion is the generation of the held context.
C10_VersionIsGenerationOfHeldContext ==
    (last.op = "init" /\ ~last.threw) =>
        webGLVersion = (IF IsWebGL2(gl) THEN 2 ELSE 1)

\* The context an init call is about: the one supplied, else the one the
\* surface hands out.
InitContext == IF Truthy(last.arg) THEN last.arg ELSE canvasContext

\* C11: an init that is given a WebGL 2 context never asks the surface for a
\* context and ends with webGLVersion 2 and that context as the held one.
C11_AdoptsModernContextWithoutCreation ==
    (last.op = "init" /\ Truthy(last.arg) /\ IsWebGL2(last.arg)) =>
        /\ last.getContext = <<>>
        /\ webGLVersion = 2
        /\ gl = last.arg

\* C11 witness: a WebGL 2 context was adopted with every other option
\* differing from the defaults of the class.
C11_Witness ==
    /\ last.op = "init"
    /\ ~last.threw
    /\ Truthy(last.arg)
    /\ IsWebGL2(last.arg)
    /\ last.options[1].powerPreference = "high-performance"
    /\ last.options[1].premultipliedAlpha = Some(FALSE)
    /\ webGLVersion = 2
    /\ gl = last.arg

\* C12 as stated: isLost is false after every init that returns without
\* error, also when the adopted context was already lost.
C12_NeverLostAfterInit == (last.op = "init" /\ ~last.threw) => ~isLost

\* C12 amended: after an init that returns without error isLost is true
\* exactly when the created or adopted context was already lost at the call;
\* then the manager has only asked for a restore, and only of a context that
\* offers the lose-context extension.
C12_LostAfterInitIffContextWasLost ==
    (last.op = "init" /\ ~last.threw) =>
        /\ isLost = IsContextLost(contextStatus, InitContext)
        /\ last.restoreContext =
              IF isLost /\ "WEBGL_lose_context" \in SupportedExtensions(InitContext)
              THEN << InitContext >>
              ELSE <<>>

\* C12 witness: a context that was already lost has been adopted.
C12_Witness ==
    /\ last.op = "init"
    /\ ~last.threw
    /\ Truthy(last.arg)
    /\ isLost
    /\ last.restoreContext = << gl >>

\* C13: whenever init emits the "context changed" notification, the surface
\* already holds the loss handler and the restoration handler.
C13_HandlersRegisteredBeforeNotification ==
    last.op = "init" =>
        \A i \in DOMAIN last.listening :
            last.listening[i] = {"webglcontextlost", "webglcontextrestored"}

\* C14: after every init that returns without error the extensions table is
\* exactly what probing the fixed extension list on the held context gives.
C14_ExtensionsAreThoseOfHeldContext ==
    (last.op = "init" /\ ~last.threw) =>
        extensions = ProbedExtensions(contextStatus, gl)

\* Whether a context supports 32-bit indices: always under WebGL 2, else by
\* the OES_element_index_uint extension.
WideIndices(g) ==
    IsWebGL2(g)
    \/ GetExtension(contextStatus, g, "OES_element_index_uint") # NoExtension

\* The warnings validation owes for a context: one for a missing stencil
\* buffer in the reported attributes, one for missing 32-bit indices.
WarningsOwed(g) ==
    (IF ~IsContextLost(contextStatus, g) /\ ~GrantedStencil(g)
     THEN << "stencil" >> ELSE <<>>)
    \o (IF ~WideIndices(g) THEN << "uint32Indices" >> ELSE <<>>)

C16_CreationRequestsOneModernContext ==
    (last.op = "init" /\ ~Truthy(last.arg) /\ renderer) =>
        LET o == last.options[1]
        IN  /\ Len(last.getContext) = 1
            /\ last.getContext[1].kind = "webgl2"
            /\ last.getContext[1].attributes =
                   [ alpha |-> last.background[1] < Opaque,
                     premultipliedAlpha |->
                         IF o.premultipliedAlpha = Unset
                         THEN TRUE
                         ELSE o.premultipliedAlpha[1],
                     antialias |-> o.antialias,
                     stencil |-> TRUE,
                     preserveDrawingBuffer |-> o.preserveDrawingBuffer,
                     powerPreference |-> o.powerPreference ]
            /\ Truthy(canvasContext) =>
                   (webGLVersion = 2 /\ gl = canvasContext /\ ~last.threw)

\* C16 witness: a creating init with a translucent background and an
\* explicit premultipliedAlpha of false was granted a context.
C16_Witness ==
    /\ last.op = "init"
    /\ ~Truthy(last.arg)
    /\ ~last.threw
    /\ last.background = Some(50)
    /\ last.options[1].premultipliedAlpha = Some(FALSE)
    /\ Len(last.getContext) = 1
    /\ last.getContext[1].attributes.alpha
    /\ ~last.getContext[1].attributes.premultipliedAlpha
    /\ webGLVersion = 2
    /\ Truthy(gl)

\* C17: an init with an existing context leaves preserveDrawingBuffer and
\* powerPreference as they were, and every step that changes either field is
\* an init without an existing context.
C17_OnlyCreationCapturesOptions ==
    [][ /\ (last'.op = "init" /\ Truthy(last'.arg)) =>
               UNCHANGED << preserveDrawingBuffer, powerPreference >>
        /\ (<< preserveDrawingBuffer, powerPreference >>'
                # << preserveDrawingBuffer, powerPreference >>) =>
               (last'.op = "init" /\ ~Truthy(last'.arg)) ]_vars

\* C17 witness: a context was adopted with options asking for the opposite
\* of what an earlier creation had captured; the captured values stand.
C17_Witness ==
    /\ last.op = "init"
    /\ Truthy(last.arg)
    /\ ~last.threw
    /\ last.options[1].preserveDrawingBuffer
    /\ last.options[1].powerPreference = "high-performance"
    /\ preserveDrawingBuffer = Some(FALSE)
    /\ powerPreference = Some("default")

\* C18: every "context changed" notification carries the handle the manager
\* holds, the renderer's gl reference equals the held handle once a
\* notification was delivered, and after an init that returns the one held
\* handle is the context just created or adopted.
C18_NotificationCarriesHeldHandle ==
    /\ \A i \in DOMAIN last.emitted : last.emitted[i] = gl
    /\ last.emitted # <<>> => rendererGl = gl
    /\ (last.op = "init" /\ ~last.threw) =>
           (gl = InitContext /\ last.emitted = << InitContext >>)

\* C18 witness: a manager that had created the surface's context adopted
\* another one, which is now the handle held, notified and given to the
\* renderer.
C18_Witness ==
    /\ last.op = "init"
    /\ ~last.threw
    /\ Truthy(last.arg)
    /\ last.arg # canvasContext
    /\ "s3tc" \in DOMAIN extensions
    /\ last.emitted = << last.arg >>
    /\ gl = last.arg
    /\ rendererGl = last.arg

\* C19: the surface holds each of the two handlers at most once, so a signal
\* invokes its handler once; after destroy it holds neither.
C19_HandlersRegisteredAtMostOnce ==
    /\ \A type \in {"webglcontextlost", "webglcontextrestored"} :
           Cardinality(Registered(type)) <= 1
    /\ last.op = "webglcontextlost" => last.preventDefault = 1
    /\ last.op = "webglcontextrestored" => Len(last.emitted) = 1
    /\ ~renderer => listeners = {}

\* C19 witness: after a creating init and an adopting init on the same
\* manager a loss signal invoked the loss handler once.
C19_Witness ==
    /\ last.op = "webglcontextlost"
    /\ last.preventDefault = 1
    /\ "s3tc" \in DOMAIN extensions
    /\ Truthy(gl)
    /\ gl # canvasContext
    /\ Cardinality(listeners) = 2

\* C20: every restore request of contextChange is for the notified handle,
\* which is lost and offers WEBGL_lose_context; handling the restoration of
\* a context never requests a restore of that context, and none at all when
\* it is the held one.
C20_RestoreOnlyWhenLost ==
    /\ \A i \in DOMAIN last.restoreContext :
           LET g == last.restoreContext[i]
           IN  /\ \E j \in DOMAIN last.emitted : last.emitted[j] = g
               /\ IsContextLost(contextStatus, g)
               /\ "WEBGL_lose_context" \in SupportedExtensions(g)
    /\ last.op = "webglcontextrestored" =>
           /\ \A i \in DOMAIN last.restoreContext :
                  last.restoreContext[i] # last.arg
           /\ gl = last.arg => last.restoreContext = <<>>

\* C20 witness: the restoration of the held context, which offers
\* WEBGL_lose_context, was notified and no restore was requested.
C20_Witness ==
    /\ last.op = "webglcontextrestored"
    /\ gl = last.arg
    /\ "WEBGL_lose_context" \in SupportedExtensions(gl)
    /\ last.emitted = << gl >>
    /\ last.restoreContext = <<>>

====
